---- MODULE Spec2Model ----
(***************************************************************************)
(* EchoSave: rolling audio buffer, retroactive save, incident store and    *)
(* batch analysis, modelled from App.tsx (src/unnamed/part_001) and the    *)
(* analysis client (src/unnamed/part_002); the live duplex session,        *)
(* modelled from LiveTacticalMonitor (src/unnamed/part_000).               *)
(*                                                                         *)
(* Time is Date.now() in milliseconds.  The clock is taken to be           *)
(* non-decreasing between events; several events may read the same         *)
(* millisecond.  Every action is one handler invocation (a click handler,  *)
(* a timer callback, a recorder event, the completion of an awaited        *)
(* promise); handlers run to completion on the single event loop.          *)
(* Handlers of the page run while the React tree of App is mounted         *)
(* (appMounted) and App renders the page rather than the stealth screen     *)
(* (PageRendered); a render or an effect cleanup that throws unmounts the    *)
(* tree, after which state setters are dropped and only the refs and        *)
(* pending promises go on.                                                  *)
(* The live variables follow the overlay that is rendered and the latest    *)
(* run of its session effect.                                               *)
(* The key modal's input, Save Key and Cancel act only while the modal is   *)
(* rendered.  The analyse button of a card is a separate predicate          *)
(* (AnalyzeButtonEnabled) that every specification conjoins to              *)
(* handleAnalyze.                                                           *)
(*                                                                         *)
(* Specifications:                                                         *)
(*   Spec                  ring buffer and save in a monitoring session    *)
(*   SpecCapture           start, double start, stop, restart, buffer      *)
(*   SpecPermission        permission query, prompt, start on a fresh load *)
(*   SpecStore             save, analyse, delete on the incident list      *)
(*   SpecIncident          incidents while fragments arrive and are pruned *)
(*   SpecAnalyze           analysis through the button of the incident card *)
(*   SpecScenario          one fragment per second for 40 minutes          *)
(*   SpecLive              life of a live session: startup, events, close  *)
(*   SpecOverlay           overlay with key retyped, stealth, reopening    *)
(*   SpecPlayback          scheduling of synthesized audio, interruption   *)
(*   SpecTranscript        the transcription of a live session             *)
(***************************************************************************)
EXTENDS Integers, Sequences, FiniteSets, TLC

\* ------------------------------------------------------------------ constants
BUFFER_DURATION_MS == 30 * 60 * 1000
CHUNK_DURATION_MS == 1000
SAVE_OPTIONS == {1, 5, 10, 15, 20, 25, 30}
\* the length the transcription is cut to
TranscriptCap == 2000

\* --------------------------------------------------------------------- bounds
\* last clock value explored
MaxNow == 2700000
\* clock increment between events: a quarter of an hour, so that fragments
\* arrive 0, 15, 30 or 45 minutes apart and the 15 and 30 minute windows are
\* hit exactly
Steps == {900000}
\* fragments captured in one behaviour
MaxFragments == 3
\* incidents saved in one behaviour
MaxIncidents == 2
\* analysis requests issued in one behaviour
MaxRequests == 3
\* analysis requests issued in one behaviour of the incident store, where
\* every lookback is saved with and the clock moves
MaxStoreRequests == 2
\* startRecording invocations in one behaviour
MaxStarts == 2
\* length of the every-second scenario, in seconds (40 minutes)
ScenarioSeconds == 2400
\* microphone blocks uploaded in one live session
MaxUploads == 2
\* server messages delivered in one live session
MaxMessages == 4
\* last value of the output context's clock explored
MaxTime == 4
\* prompts of the permission modal awaiting the user's answer at once
MaxPrompts == 2
\* replaced runs of the session effect awaiting getUserMedia at once
MaxStale == 1

VARIABLES
    now,              \* Date.now()
    apiKey,           \* useState apiKey ("" when absent)
    showKeyModal,     \* useState showKeyModal
    storedKey,        \* localStorage item gemini_api_key ("" when absent)
    appMounted,       \* the React tree of App is mounted
    permission,       \* useState permission: "null", "true", "false"
    promptsPending,   \* getUserMedia calls of the permission modal not settled yet
    isRecording,      \* useState isRecording
    bufferSizeSecs,   \* useState bufferSizeSecs
    incidents,        \* useState incidents: sequence of SavedIncident
    analyzingIds,     \* useState analyzingIds
    audioChunks,      \* audioChunksRef.current: sequence of AudioChunk
    mediaRecorderRef, \* mediaRecorderRef.current: recorder id, 0 for null
    streamRef,        \* streamRef.current: stream id, 0 for null
    silentAudio,      \* silentAudioRef.current: "null", "playing", "paused"
    recorders,        \* MediaRecorder objects: id -> "none", "recording", "inactive"
    flushPending,     \* recorders whose stop() has queued a final dataavailable
    streams,          \* MediaStream objects: id -> "none", "live", "ended"
    starts,           \* startRecording invocations: id -> position and captured permission
    requests,         \* handleAnalyze invocations awaiting analyzeIncident
    uuidCounter,      \* incidents created so far (crypto.randomUUID never repeats)
    requestCounter,   \* handleAnalyze invocations that reached the await
    captured,         \* history: every fragment ever pushed to the buffer
    last,             \* history: the handler that ran last, its argument and result
    stealthMode,      \* useState stealthMode
    isLiveMonitorOpen, \* useState isLiveMonitorOpen
    staleRuns,        \* earlier runs of the session effect of the rendered overlay
                      \* that are still at await getUserMedia
    runOutput,        \* const outputCtx of the latest run: "none" before it is
                      \* created, "ref" while outputContextRef holds it, "open" or
                      \* "closed" once a replaced run has put its own in the ref
    \* LiveTacticalMonitor (src/unnamed/part_000)
    livePc,           \* startSession: "unmounted", the await it is at, or "returned"
    isMounted,        \* let isMounted of the session effect
    session,          \* let session of the session effect: "null" or "session"
    status,           \* useState status
    transcription,    \* useState transcription: sequence of characters
    inputContext,     \* inputContextRef.current: "null", "open", "closed"
    outputContext,    \* outputContextRef.current: "null", "open", "closed"
    nextStartTime,    \* nextStartTimeRef.current
    audioSources,     \* audioSourcesRef.current: sequence of clip numbers
    animationFrame,   \* animationFrameRef.current: "null", "requested", "cancelled"
    liveStream,       \* the MediaStream of getUserMedia: "none", "live", "ended"
    socket,           \* the connection of ai.live.connect
    processorActive,  \* processor.onaudioprocess is set and the source connected
    uploads,          \* sendRealtimeInput calls made
    currentTime,      \* outputCtx.currentTime
    clips,            \* history: every AudioBufferSourceNode started
    interruptedAt,    \* history: currentTime of the latest interruption, -1 for none
    messageCount,     \* history: messages delivered to onmessage
    liveLast          \* history: the live callback that ran last

appVars == <<now, apiKey, showKeyModal, storedKey, appMounted, permission,
             promptsPending, isRecording, bufferSizeSecs,
             incidents, analyzingIds, audioChunks, mediaRecorderRef, streamRef,
             silentAudio, recorders, flushPending, streams, starts, requests,
             uuidCounter, requestCounter, captured, last>>

sessionVars == <<livePc, isMounted, session, status, inputContext, outputContext,
                 animationFrame, liveStream, socket, processorActive, uploads>>
messageVars == <<transcription, nextStartTime, audioSources, currentTime, clips,
                 interruptedAt, messageCount>>
liveVars == <<sessionVars, messageVars, liveLast>>

\* what App renders of the overlay, and the runs of its session effect that
\* a later run has replaced
runVars == <<staleRuns, runOutput>>
overlayVars == <<stealthMode, isLiveMonitorOpen, runVars>>

vars == <<appVars, overlayVars, liveVars>>

captureVars == <<appMounted, permission, promptsPending, isRecording, mediaRecorderRef,
                 streamRef, silentAudio, recorders, flushPending, streams, starts>>
analysisVars == <<apiKey, showKeyModal, storedKey, analyzingIds, requests, requestCounter>>

\* ------------------------------------------------------------ sequence helpers
Timestamps(chunks) == [i \in 1..Len(chunks) |-> chunks[i].timestamp]
\* .map(chunk => chunk.data)
ChunkData(chunks) == [i \in 1..Len(chunks) |-> chunks[i].data]
IncidentIds(list) == {list[i].id : i \in 1..Len(list)}

IsSorted(s) == \A i \in 1..Len(s) : \A j \in i..Len(s) : s[i] <= s[j]
IsPrefixRemoval(before, after) ==
    /\ Len(after) <= Len(before)
    /\ after = SubSeq(before, Len(before) - Len(after) + 1, Len(before))

\* -------------------------------------------------------------- ring buffer
AudioChunk(d, t) == [data |-> d, timestamp |-> t]

\* unshift in place of push
PushChunkAtHead(chunks, chunk) == <<chunk>> \o chunks

\* audioChunksRef.current.push(chunk)
PushChunk(chunks, chunk) == Append(chunks, chunk)

\* while (length > 0 && chunks[0].timestamp < cutoff) chunks.shift()
RECURSIVE PruneHead(_, _)
PruneHead(chunks, cutoff) ==
    IF Len(chunks) > 0 /\ chunks[1].timestamp < cutoff
    THEN PruneHead(Tail(chunks), cutoff)
    ELSE chunks

\* the body of recorder.ondataavailable for event.data.size > 0
AppendAndPrune(chunks, d, t) ==
    PruneHead(PushChunk(chunks, AudioChunk(d, t)), t - BUFFER_DURATION_MS)

\* <= in place of <
IsValidChunkInclusive(c, t) == t - c.timestamp <= BUFFER_DURATION_MS

\* the predicate of the sweep's filter
IsValidChunk(c, t) == t - c.timestamp < BUFFER_DURATION_MS

ValidChunks(chunks, t) == SelectSeq(chunks, LAMBDA c : IsValidChunk(c, t))

\* the buffer after the interval callback
SweepChunks(chunks, t) ==
    IF Len(ValidChunks(chunks, t)) # Len(chunks) THEN ValidChunks(chunks, t) ELSE chunks

\* Math.floor(validChunks.length * (CHUNK_DURATION_MS / 1000))
SizeSeconds(chunks, t) == (Len(ValidChunks(chunks, t)) * CHUNK_DURATION_MS) \div 1000

\* ------------------------------------------------------------------- save
SaveCutoff(t, minutes) == t - (minutes * 60 * 1000)

\* > in place of >=
InSaveWindowStrict(c, cutoff) == c.timestamp > cutoff

InSaveWindow(c, cutoff) == c.timestamp >= cutoff

\* .filter(chunk => chunk.timestamp >= cutoff).map(chunk => chunk.data)
RelevantChunks(chunks, t, minutes) ==
    ChunkData(SelectSeq(chunks, LAMBDA c : InSaveWindow(c, SaveCutoff(t, minutes))))

\* the fragments selected are taken out of the buffer
BufferAfterSplice(chunks, cutoff) == SelectSeq(chunks, LAMBDA c : ~InSaveWindow(c, cutoff))

\* audioChunksRef.current after saveIncident: filter and map build new arrays,
\* and nothing is assigned to the ref
BufferAfterSave(chunks, cutoff) == chunks

\* the second early return left out
SaveReturnsNullOnEmptyOnly(chunks, relevant) == Len(chunks) = 0

\* the two early returns of saveIncident
SaveReturnsNull(chunks, relevant) == Len(chunks) = 0 \/ Len(relevant) = 0

NoAnalysis == "undefined"

\* the duration is the time from the first fragment included to the last
NewIncidentElapsed(id, t, relevant) ==
    [id |-> id, timestamp |-> t,
     durationSeconds |-> (captured[relevant[Len(relevant)]].timestamp
                            - captured[relevant[1]].timestamp) \div 1000,
     blob |-> relevant, analysis |-> NoAnalysis]

NewIncident(id, t, relevant) ==
    [id |-> id, timestamp |-> t, durationSeconds |-> Len(relevant),
     blob |-> relevant, analysis |-> NoAnalysis]

\* [...prev, newIncident]
AppendIncident(inc, prev) == prev \o <<inc>>

\* setIncidents(prev => [newIncident, ...prev])
PrependIncident(inc, prev) == <<inc>> \o prev

\* ----------------------------------------------------------- incident store
\* an upsert: a result for an id that is gone puts an entry back
AttachOrInsertAnalysis(prev, id, analysis) ==
    IF \E i \in 1..Len(prev) : prev[i].id = id
    THEN [i \in 1..Len(prev) |->
            IF prev[i].id = id THEN [prev[i] EXCEPT !.analysis = analysis] ELSE prev[i]]
    ELSE <<[id |-> id, timestamp |-> 0, durationSeconds |-> 0, blob |-> <<>>,
            analysis |-> analysis]>> \o prev

\* { ...inc, analysis, timestamp: Date.now() }: the incident is re-stamped
AttachAnalysisRestamped(prev, id, analysis) ==
    [i \in 1..Len(prev) |->
        IF prev[i].id = id
        THEN [prev[i] EXCEPT !.analysis = analysis, !.timestamp = now]
        ELSE prev[i]]

\* prev.map(inc => inc.id === id ? { ...inc, analysis } : inc)
AttachAnalysis(prev, id, analysis) ==
    [i \in 1..Len(prev) |->
        IF prev[i].id = id THEN [prev[i] EXCEPT !.analysis = analysis] ELSE prev[i]]

\* prev.filter(inc => inc.id > id): the older incidents go as well
DeleteIncidentAndOlder(prev, id) == SelectSeq(prev, LAMBDA inc : inc.id > id)

\* prev.filter(inc => inc.id !== id)
DeleteIncident(prev, id) == SelectSeq(prev, LAMBDA inc : inc.id # id)

\* ---------------------------------------------------------- analysis client
\* what generateContent can come back with: a rejection, a response without
\* text, text that is not JSON, a JSON object with the summary only, a JSON
\* object with all fields and a threat level outside the enum, the JSON text
\* null, and two conforming objects
Responses ==
    {"networkError", "noText", "malformed", "partial", "badLevel", "jsonNull", "full1", "full2"}

\* the fields of IncidentAnalysis, which are the schema's required list
RequiredFields == {"summary", "sentiment", "threatLevel", "keyEvents",
                   "currentSituation", "predictedNextMoves", "recommendations"}
ThreatLevels == {"Low", "Medium", "High", "Critical"}

\* the object JSON.parse builds from the text of a response that parses
ParsedFields(resp) ==
    CASE resp = "partial" -> {"summary"}
      [] resp \in {"badLevel", "full1", "full2"} -> RequiredFields
      [] OTHER -> {}
ParsedThreatLevel(resp) ==
    CASE resp = "badLevel" -> "Severe"
      [] resp = "full1" -> "Low"
      [] resp = "full2" -> "Critical"
      [] OTHER -> "undefined"

\* the value has the shape the IncidentAnalysis interface declares
IsIncidentAnalysis(value) ==
    /\ RequiredFields \subseteq ParsedFields(value)
    /\ ParsedThreatLevel(value) \in ThreatLevels

\* analyzeIncident: throws on a rejected call, on empty text and on text that
\* JSON.parse rejects; anything that parses is returned as it is
AnalyzeThrows(resp) == resp \in {"networkError", "noText", "malformed"}
AnalyzeValue(resp) == resp

\* ------------------------------------------------------------------ render
\* incident.analysis ? ... : ... in the incident card: undefined and null are
\* falsy, an object is truthy
Truthy(analysis) == analysis \notin {NoAnalysis, "jsonNull"}

\* the fields IncidentAnalysisCard calls map on
CardLists == {"predictedNextMoves", "keyEvents", "recommendations"}

\* the render of IncidentAnalysisCard throws: map is read from undefined
CardThrows(analysis) == ~(CardLists \subseteq ParsedFields(analysis))

\* the render of App with this incident list throws
RenderThrows(list) ==
    \E i \in 1..Len(list) : Truthy(list[i].analysis) /\ CardThrows(list[i].analysis)

\* ------------------------------------------------------------------- history
\* a state setter of App: the update is dropped once the tree is unmounted
SetState(cur, new) == IF appMounted THEN new ELSE cur

\* App renders its page, with the buttons, the cards and the modals, and not
\* the stealth screen
PageRendered == appMounted /\ ~stealthMode

\* after a save: the blob it stored, empty when it returned null
SavedBlob == IF last.ret = 0 THEN <<>> ELSE incidents[1].blob

\* history: the latest save, its lookback, the time it ran at and the blob it
\* selected; kept while the clock, the recorder, the sweep and the stop
\* button are all that has run since and the buffer is as the save left it
NoSave == [minutes |-> 0, at |-> -1, blob |-> <<>>]
PrevSave ==
    IF last.op = "save"
    THEN [minutes |-> last.arg, at |-> now, blob |-> SavedBlob]
    ELSE IF /\ last.op \in {"tick", "dataavailable", "sweep", "stop"}
            /\ audioChunks = last.prevChunks
         THEN last.prevSave
         ELSE NoSave

Last(op, arg, ret, val) ==
    [op |-> op, arg |-> arg, ret |-> ret, val |-> val,
     prevIncidents |-> incidents, prevChunks |-> audioChunks, prevSave |-> PrevSave]

\* the application while the live monitor overlay is not rendered
LiveUnmounted ==
    /\ stealthMode = FALSE
    /\ isLiveMonitorOpen = FALSE
    /\ staleRuns = 0
    /\ runOutput = "none"
    /\ livePc = "unmounted"
    /\ isMounted = FALSE
    /\ session = "null"
    /\ status = "connecting"
    /\ transcription = <<>>
    /\ inputContext = "null"
    /\ outputContext = "null"
    /\ nextStartTime = 0
    /\ audioSources = <<>>
    /\ animationFrame = "null"
    /\ liveStream = "none"
    /\ socket = "none"
    /\ processorActive = FALSE
    /\ uploads = 0
    /\ currentTime = 0
    /\ clips = <<>>
    /\ interruptedAt = -1
    /\ messageCount = 0
    /\ liveLast = [op |-> "none", prevTranscription |-> <<>>, text |-> <<>>, audio |-> 0,
                   turnComplete |-> FALSE]

\* ---------------------------------------------------------------------- Init
StartIds == 1..MaxStarts

Init ==
    /\ now = 0
    /\ apiKey \in {"", "key"}
    /\ showKeyModal = (apiKey = "")
    /\ permission = "null"
    /\ isRecording = FALSE
    /\ bufferSizeSecs = 0
    /\ incidents = <<>>
    /\ analyzingIds = {}
    /\ audioChunks = <<>>
    /\ mediaRecorderRef = 0
    /\ streamRef = 0
    /\ silentAudio = "null"
    /\ recorders = [r \in StartIds |-> "none"]
    /\ flushPending = {}
    /\ promptsPending = 0
    /\ appMounted = TRUE
    /\ streams = [r \in StartIds |-> "none"]
    /\ starts = [s \in 0..MaxStarts |->
                    [pc |-> IF s = 0 THEN "query" ELSE "idle", perm |-> "null"]]
    /\ requests = {}
    /\ storedKey = apiKey
    /\ uuidCounter = 0
    /\ requestCounter = 0
    /\ captured = <<>>
    /\ last = [op |-> "init", arg |-> 0, ret |-> 0, val |-> "",
               prevIncidents |-> <<>>, prevChunks |-> <<>>, prevSave |-> NoSave]
    /\ LiveUnmounted

\* ------------------------------------------------------------------- clock
Tick(d) ==
    /\ now + d <= MaxNow
    /\ now' = now + d
    /\ last' = Last("tick", d, 0, "")
    /\ UNCHANGED <<bufferSizeSecs, incidents, audioChunks, uuidCounter, captured>>
    /\ UNCHANGED captureVars
    /\ UNCHANGED analysisVars
    /\ UNCHANGED <<overlayVars, liveVars>>

\* ------------------------------------------------------------ ring buffer
\* recorder.ondataavailable of recorder r, event.data.size = size
Ondataavailable(r, size) ==
    /\ recorders[r] = "recording" \/ r \in flushPending
    /\ flushPending' = flushPending \ {r}
    /\ IF size > 0
       THEN /\ audioChunks' = AppendAndPrune(audioChunks, Len(captured) + 1, now)
            /\ captured' = Append(captured, AudioChunk(Len(captured) + 1, now))
       ELSE UNCHANGED <<audioChunks, captured>>
    /\ last' = Last("dataavailable", r, size, "")
    /\ UNCHANGED <<now, bufferSizeSecs, incidents, uuidCounter>>
    /\ UNCHANGED <<appMounted, permission, promptsPending, isRecording, mediaRecorderRef,
                   streamRef, silentAudio, recorders, streams, starts>>
    /\ UNCHANGED analysisVars
    /\ UNCHANGED <<overlayVars, liveVars>>

\* the setInterval callback of the buffer-size effect
Sweep ==
    /\ appMounted /\ isRecording
    /\ audioChunks' = SweepChunks(audioChunks, now)
    /\ bufferSizeSecs' = SizeSeconds(audioChunks, now)
    /\ last' = Last("sweep", 0, SizeSeconds(audioChunks, now), "")
    /\ UNCHANGED <<now, incidents, uuidCounter, captured>>
    /\ UNCHANGED captureVars
    /\ UNCHANGED analysisVars
    /\ UNCHANGED <<overlayVars, liveVars>>

\* ------------------------------------------------------------------- save
SaveIncident(minutes) ==
    /\ PageRendered
    /\ LET relevant == RelevantChunks(audioChunks, now, minutes) IN
       IF SaveReturnsNull(audioChunks, relevant)
       THEN /\ UNCHANGED <<incidents, uuidCounter>>
            /\ last' = Last("save", minutes, 0, "")
       ELSE /\ incidents' = PrependIncident(NewIncident(uuidCounter + 1, now, relevant),
                                            incidents)
            /\ uuidCounter' = uuidCounter + 1
            /\ last' = Last("save", minutes, uuidCounter + 1, "")
    /\ audioChunks' = BufferAfterSave(audioChunks, SaveCutoff(now, minutes))
    /\ UNCHANGED <<now, bufferSizeSecs, captured>>
    /\ UNCHANGED captureVars
    /\ UNCHANGED analysisVars
    /\ UNCHANGED <<overlayVars, liveVars>>

\* --------------------------------------------------------- capture session
\* checkPermission(false), called once from the mount effect
CheckPermissionQuery(state) ==
    /\ starts[0].pc = "query"
    /\ starts' = [starts EXCEPT ![0].pc = "returned"]
    /\ permission' = CASE state = "granted" -> SetState(permission, "true")
                       [] state = "denied" -> SetState(permission, "false")
                       [] OTHER -> permission
    /\ last' = Last("query", 0, 0, state)
    /\ UNCHANGED <<now, bufferSizeSecs, incidents, audioChunks, uuidCounter, captured>>
    /\ UNCHANGED <<appMounted, promptsPending, isRecording, mediaRecorderRef, streamRef,
                   silentAudio, recorders, flushPending, streams>>
    /\ UNCHANGED analysisVars
    /\ UNCHANGED <<overlayVars, liveVars>>

\* checkPermission(true) from the button of the permission modal, rendered
\* while permission is false and recording is off, up to await getUserMedia
CheckPermissionPrompt ==
    /\ PageRendered
    /\ permission = "false" /\ ~isRecording
    /\ promptsPending < MaxPrompts
    /\ promptsPending' = promptsPending + 1
    /\ last' = Last("prompt", 0, 0, "")
    /\ UNCHANGED <<now, bufferSizeSecs, incidents, audioChunks, uuidCounter, captured>>
    /\ UNCHANGED <<appMounted, permission, isRecording, mediaRecorderRef, streamRef,
                   silentAudio, recorders, flushPending, streams, starts>>
    /\ UNCHANGED analysisVars
    /\ UNCHANGED <<overlayVars, liveVars>>

\* that getUserMedia settles: the tracks of the stream are stopped at once and
\* setPermission(true), or the catch block and setPermission(false)
CheckPermissionPromptSettled(granted) ==
    /\ promptsPending > 0
    /\ promptsPending' = promptsPending - 1
    /\ permission' = SetState(permission, IF granted THEN "true" ELSE "false")
    /\ last' = Last("prompted", 0, IF granted THEN 1 ELSE 0, "")
    /\ UNCHANGED <<now, bufferSizeSecs, incidents, audioChunks, uuidCounter, captured>>
    /\ UNCHANGED <<appMounted, isRecording, mediaRecorderRef, streamRef, silentAudio,
                   recorders, flushPending, streams, starts>>
    /\ UNCHANGED analysisVars
    /\ UNCHANGED <<overlayVars, liveVars>>

\* startRecording up to its first await; permission is the value of the render
\* the handler was created in
StartRecording(s) ==
    /\ PageRendered
    /\ s \in StartIds
    /\ starts[s].pc = "idle"
    /\ \A k \in 1..(s - 1) : starts[k].pc # "idle"
    /\ starts' = [starts EXCEPT ![s] =
                    [pc |-> IF permission = "true" THEN "getUserMedia" ELSE "checkPermission",
                     perm |-> permission]]
    /\ last' = Last("start", s, 0, "")
    /\ UNCHANGED <<now, bufferSizeSecs, incidents, audioChunks, uuidCounter, captured>>
    /\ UNCHANGED <<appMounted, permission, promptsPending, isRecording, mediaRecorderRef,
                   streamRef, silentAudio, recorders, flushPending, streams>>
    /\ UNCHANGED analysisVars
    /\ UNCHANGED <<overlayVars, liveVars>>

\* await checkPermission(true) settles; the test that follows reads the captured value
StartPermissionChecked(s, granted) ==
    /\ s \in StartIds
    /\ starts[s].pc = "checkPermission"
    /\ permission' = SetState(permission, IF granted THEN "true" ELSE "false")
    /\ starts' = [starts EXCEPT ![s].pc =
                    IF starts[s].perm # "true" THEN "returned" ELSE "getUserMedia"]
    /\ last' = Last("checked", s, IF granted THEN 1 ELSE 0, "")
    /\ UNCHANGED <<now, bufferSizeSecs, incidents, audioChunks, uuidCounter, captured>>
    /\ UNCHANGED <<appMounted, promptsPending, isRecording, mediaRecorderRef, streamRef,
                   silentAudio, recorders, flushPending, streams>>
    /\ UNCHANGED analysisVars
    /\ UNCHANGED <<overlayVars, liveVars>>

StartOutcomes == {"ok", "rejected", "constructorThrows", "startThrows"}

\* await getUserMedia settles and the rest of the try block runs
StartStreamSettled(s, outcome) ==
    /\ s \in StartIds
    /\ starts[s].pc = "getUserMedia"
    /\ starts' = [starts EXCEPT ![s].pc = "returned"]
    /\ streams' = IF outcome = "rejected" THEN streams ELSE [streams EXCEPT ![s] = "live"]
    /\ streamRef' = IF outcome = "rejected" THEN streamRef ELSE s
    /\ recorders' = CASE outcome = "ok" -> [recorders EXCEPT ![s] = "recording"]
                      [] outcome = "startThrows" -> [recorders EXCEPT ![s] = "inactive"]
                      [] OTHER -> recorders
    /\ mediaRecorderRef' = IF outcome \in {"ok", "startThrows"} THEN s ELSE mediaRecorderRef
    /\ isRecording' = IF outcome = "ok" THEN SetState(isRecording, TRUE) ELSE isRecording
    /\ silentAudio' = IF outcome = "ok" THEN "playing" ELSE silentAudio
    /\ last' = Last("started", s, IF outcome = "ok" THEN 1 ELSE 0, outcome)
    /\ UNCHANGED <<now, bufferSizeSecs, incidents, audioChunks, uuidCounter, captured>>
    /\ UNCHANGED <<appMounted, permission, promptsPending, flushPending>>
    /\ UNCHANGED analysisVars
    /\ UNCHANGED <<overlayVars, liveVars>>

\* what stopRecording does to the recorder, the stream and the keep-alive
\* playback held in the refs
StopRecordingRefs ==
    /\ LET stopsRecorder == mediaRecorderRef # 0 /\ recorders[mediaRecorderRef] # "inactive" IN
       /\ recorders' = IF stopsRecorder
                       THEN [recorders EXCEPT ![mediaRecorderRef] = "inactive"]
                       ELSE recorders
       /\ flushPending' = IF stopsRecorder
                          THEN flushPending \cup {mediaRecorderRef}
                          ELSE flushPending
    /\ streams' = IF streamRef # 0 THEN [streams EXCEPT ![streamRef] = "ended"] ELSE streams
    /\ silentAudio' = IF silentAudio # "null" THEN "paused" ELSE silentAudio

\* stopRecording from the toggle button
StopRecording ==
    /\ PageRendered
    /\ StopRecordingRefs
    /\ isRecording' = FALSE
    /\ last' = Last("stop", 0, 0, "")
    /\ UNCHANGED <<now, bufferSizeSecs, incidents, audioChunks, uuidCounter, captured>>
    /\ UNCHANGED <<appMounted, permission, promptsPending, mediaRecorderRef, streamRef, starts>>
    /\ UNCHANGED analysisVars
    /\ UNCHANGED <<overlayVars, liveVars>>

\* ------------------------------------------------- overlay mount and unmount
LiveLast(op) ==
    [op |-> op, prevTranscription |-> transcription, text |-> <<>>, audio |-> 0,
     turnComplete |-> FALSE]

\* session.close()
CloseSession(sess, sock) ==
    IF sess # "null" /\ sock \in {"connecting", "open", "failed"} THEN "closing" ELSE sock

\* ref.current?.close()
CloseContext(ctx) == IF ctx = "null" THEN "null" ELSE "closed"

\* LiveTacticalMonitor is unmounted: the cleanup of the session effect, whose
\* statements run one after the other with no try around them, and the
\* cleanup of the visualisation effect, which React runs whether or not the
\* other threw.  "closeThrows": session.close() throws, and the statements
\* after it do not run.  A context close() that fails rejects its promise and
\* throws nothing.
LiveUnmount(outcome) ==
    /\ outcome \in {"ok", "closeThrows"}
    /\ outcome = "closeThrows" => session # "null"
    /\ isMounted' = FALSE
    /\ IF outcome = "ok"
       THEN /\ socket' = CloseSession(session, socket)
            /\ inputContext' = CloseContext(inputContext)
            /\ outputContext' = CloseContext(outputContext)
            /\ liveLast' = LiveLast("cleanup")
       ELSE /\ UNCHANGED <<socket, inputContext, outputContext>>
            /\ liveLast' = LiveLast("cleanupThrew")
    /\ animationFrame' = IF animationFrame = "requested" THEN "cancelled" ELSE animationFrame
    /\ UNCHANGED <<livePc, session, status, liveStream, processorActive, uploads>>
    /\ UNCHANGED messageVars

\* React unmounts the tree of App: the cleanup of the mount effect runs
\* stopRecording, whose setIsRecording is dropped, and the interval of the
\* buffer-size effect is cleared.
AppCleanup ==
    /\ appMounted' = FALSE
    /\ StopRecordingRefs
    /\ UNCHANGED <<permission, promptsPending, isRecording, mediaRecorderRef, streamRef, starts>>

\* the cleanup of the session effect ran while App stays rendered: an error
\* it throws is uncaught, there is no error boundary, and React unmounts the
\* tree of App
CleanupSettled(outcome) ==
    IF outcome = "closeThrows" THEN AppCleanup ELSE UNCHANGED captureVars

\* a render of App threw and there is no error boundary: React unmounts the
\* tree; the overlay, if rendered, is unmounted with it.
UnmountApp ==
    /\ AppCleanup
    /\ IF isMounted
       THEN \E outcome \in {"ok", "closeThrows"} : LiveUnmount(outcome)
       ELSE UNCHANGED liveVars

\* a LiveTacticalMonitor is rendered where none was: a new component, with
\* its own state and refs, whose session effect runs startSession up to
\* await inputCtx.resume().  The variables follow the new component; the runs
\* of the component that was unmounted are followed no further.
LiveMount ==
    /\ livePc' = "resumeInput"
    /\ isMounted' = TRUE
    /\ session' = "null"
    /\ status' = "connecting"
    /\ inputContext' = "open"
    /\ outputContext' = "null"
    /\ animationFrame' = "null"
    /\ liveStream' = "none"
    /\ socket' = "none"
    /\ processorActive' = FALSE
    /\ uploads' = 0
    /\ transcription' = <<>>
    /\ nextStartTime' = 0
    /\ audioSources' = <<>>
    /\ currentTime' = 0
    /\ clips' = <<>>
    /\ interruptedAt' = -1
    /\ messageCount' = 0
    /\ liveLast' = [LiveLast("mount") EXCEPT !.prevTranscription = <<>>]

\* apiKey, the dependency of the session effect, changed while the overlay is
\* rendered: the cleanup of the effect runs and startSession starts again in
\* the same component, up to await inputCtx.resume().  State and refs of the
\* component stay; the variables of the run follow the new run, and the run
\* replaced is counted in staleRuns while it awaits getUserMedia.
\* "closeThrows": session.close() throws in the cleanup of the run replaced,
\* which closes no context; the new run starts all the same, and the unmount
\* of the tree that the uncaught error brings runs the cleanup of the new
\* run, on its input context and on the output context the ref still holds,
\* and the cleanup of the visualisation effect.
LiveRerun(outcome) ==
    /\ outcome \in {"ok", "closeThrows"}
    /\ outcome = "closeThrows" => session # "null"
    /\ livePc = "getUserMedia" => staleRuns < MaxStale
    /\ staleRuns' = IF livePc = "getUserMedia" THEN staleRuns + 1 ELSE staleRuns
    /\ runOutput' = "none"
    /\ livePc' = "resumeInput"
    /\ isMounted' = (outcome = "ok")
    /\ session' = "null"
    /\ inputContext' = IF outcome = "ok" THEN "open" ELSE "closed"
    /\ outputContext' = CloseContext(outputContext)
    /\ liveStream' = "none"
    /\ socket' = "none"
    /\ processorActive' = FALSE
    /\ uploads' = 0
    /\ liveLast' = LiveLast(IF outcome = "ok" THEN "rerun" ELSE "rerunThrew")
    /\ animationFrame' = IF outcome = "closeThrows" /\ animationFrame = "requested"
                         THEN "cancelled" ELSE animationFrame
    /\ UNCHANGED status
    /\ UNCHANGED messageVars

\* ---------------------------------------------------------------- analysis
\* handleAnalyze(incidents[i]) up to the await
HandleAnalyze(i) ==
    /\ PageRendered
    /\ i \in 1..Len(incidents)
    /\ IF apiKey = ""
       THEN /\ showKeyModal' = TRUE
            /\ UNCHANGED <<analyzingIds, requests, requestCounter>>
            /\ last' = Last("analyze", incidents[i].id, 0, "")
       ELSE /\ requestCounter < MaxRequests
            /\ analyzingIds' = analyzingIds \cup {incidents[i].id}
            /\ requests' = requests \cup {[rid |-> requestCounter + 1, id |-> incidents[i].id]}
            /\ requestCounter' = requestCounter + 1
            /\ UNCHANGED showKeyModal
            /\ last' = Last("analyze", incidents[i].id, requestCounter + 1, "")
    /\ UNCHANGED <<now, bufferSizeSecs, incidents, audioChunks, uuidCounter, captured,
                   apiKey, storedKey>>
    /\ UNCHANGED captureVars
    /\ UNCHANGED <<overlayVars, liveVars>>

\* await analyzeIncident(...) settles for request req; then catch and finally,
\* and the render of the incident list that follows
AnalyzeSettled(req, resp) ==
    /\ req \in requests
    /\ LET attached == IF AnalyzeThrows(resp)
                       THEN incidents
                       ELSE AttachAnalysis(incidents, req.id, AnalyzeValue(resp))
       IN /\ incidents' = SetState(incidents, attached)
          /\ IF PageRendered /\ RenderThrows(attached)
             THEN UnmountApp
             ELSE UNCHANGED captureVars /\ UNCHANGED liveVars
    /\ UNCHANGED overlayVars
    /\ analyzingIds' = SetState(analyzingIds, analyzingIds \ {req.id})
    /\ requests' = requests \ {req}
    /\ last' = Last("analyzed", req.id, IF AnalyzeThrows(resp) THEN 0 ELSE 1, resp)
    /\ UNCHANGED <<now, bufferSizeSecs, audioChunks, uuidCounter, captured>>
    /\ UNCHANGED <<apiKey, showKeyModal, storedKey, requestCounter>>

HandleDelete(id) ==
    /\ PageRendered
    /\ incidents' = DeleteIncident(incidents, id)
    /\ last' = Last("delete", id, 0, "")
    /\ UNCHANGED <<now, bufferSizeSecs, audioChunks, uuidCounter, captured>>
    /\ UNCHANGED analysisVars
    /\ UNCHANGED captureVars
    /\ UNCHANGED <<overlayVars, liveVars>>

\* ---------------------------------------------------------------- key modal
\* what can be typed into the key input
KeyValues == {"", "key"}

\* onChange of the key input: setApiKey(e.target.value); apiKey is a prop of
\* the overlay and the dependency of its session effect, which runs again
\* while the overlay is rendered
TypeApiKey(value) ==
    /\ PageRendered /\ showKeyModal
    /\ value \in KeyValues /\ value # apiKey
    /\ apiKey' = value
    /\ last' = Last("type", 0, 0, value)
    /\ IF isMounted
       THEN \E outcome \in {"ok", "closeThrows"} :
               LiveRerun(outcome) /\ CleanupSettled(outcome)
       ELSE UNCHANGED <<runVars, liveVars>> /\ UNCHANGED captureVars
    /\ UNCHANGED <<stealthMode, isLiveMonitorOpen>>
    /\ UNCHANGED <<now, bufferSizeSecs, incidents, audioChunks, uuidCounter, captured>>
    /\ UNCHANGED <<showKeyModal, storedKey, analyzingIds, requests, requestCounter>>

\* saveApiKey(apiKey) from the Save Key button, disabled while apiKey is empty
SaveApiKey ==
    /\ PageRendered /\ showKeyModal /\ apiKey # ""
    /\ storedKey' = apiKey
    /\ showKeyModal' = FALSE
    /\ last' = Last("key", 0, 0, apiKey)
    /\ UNCHANGED <<now, bufferSizeSecs, incidents, audioChunks, uuidCounter, captured>>
    /\ UNCHANGED <<apiKey, analyzingIds, requests, requestCounter>>
    /\ UNCHANGED captureVars
    /\ UNCHANGED <<overlayVars, liveVars>>

\* the Cancel button of the key modal, rendered while a key is stored
CancelKeyModal ==
    /\ PageRendered /\ showKeyModal /\ storedKey # ""
    /\ showKeyModal' = FALSE
    /\ last' = Last("cancel", 0, 0, "")
    /\ UNCHANGED <<now, bufferSizeSecs, incidents, audioChunks, uuidCounter, captured>>
    /\ UNCHANGED <<apiKey, storedKey, analyzingIds, requests, requestCounter>>
    /\ UNCHANGED captureVars
    /\ UNCHANGED <<overlayVars, liveVars>>

\* the settings button of the header
OpenKeySettings ==
    /\ PageRendered
    /\ showKeyModal' = TRUE
    /\ last' = Last("settings", 0, 0, "")
    /\ UNCHANGED <<now, bufferSizeSecs, incidents, audioChunks, uuidCounter, captured>>
    /\ UNCHANGED <<apiKey, storedKey, analyzingIds, requests, requestCounter>>
    /\ UNCHANGED captureVars
    /\ UNCHANGED <<overlayVars, liveVars>>

\* ------------------------------------------------------------ live overlay
\* handleLiveBrainMap from the Live Brain Map button, rendered while recording
\* is on: without a key the key modal is shown; with a key isLiveMonitorOpen
\* is set, and the overlay is rendered and mounts unless it is there already
HandleLiveBrainMap ==
    /\ PageRendered /\ isRecording
    /\ last' = Last("liveBrainMap", 0, 0, "")
    /\ IF apiKey = ""
       THEN /\ showKeyModal' = TRUE
            /\ UNCHANGED <<overlayVars, liveVars>>
       ELSE /\ isLiveMonitorOpen' = TRUE
            /\ IF isLiveMonitorOpen
               THEN UNCHANGED <<runVars, liveVars>>
               ELSE LiveMount /\ staleRuns' = 0 /\ runOutput' = "none"
            /\ UNCHANGED <<showKeyModal, stealthMode>>
    /\ UNCHANGED <<now, bufferSizeSecs, incidents, audioChunks, uuidCounter, captured>>
    /\ UNCHANGED <<apiKey, storedKey, analyzingIds, requests, requestCounter>>
    /\ UNCHANGED captureVars

\* toggleStealth, from the stealth button of the header and from a click on
\* the stealth screen.  Stealth on: App renders the stealth screen in place
\* of the page, and the overlay, if rendered, is unmounted; a cleanup that
\* throws unmounts the tree of App.  Stealth off: the
\* page is rendered again; a card that throws unmounts the tree; otherwise
\* the overlay is rendered anew while isLiveMonitorOpen is set.
ToggleStealth ==
    /\ appMounted
    /\ stealthMode' = ~stealthMode
    /\ last' = Last("stealth", 0, 0, "")
    /\ IF ~stealthMode
       THEN /\ IF isMounted
               THEN \E outcome \in {"ok", "closeThrows"} :
                       LiveUnmount(outcome) /\ CleanupSettled(outcome)
               ELSE UNCHANGED liveVars /\ UNCHANGED captureVars
            /\ UNCHANGED <<isLiveMonitorOpen, runVars>>
       ELSE IF RenderThrows(incidents)
       THEN /\ UnmountApp
            /\ UNCHANGED <<isLiveMonitorOpen, runVars>>
       ELSE /\ IF isLiveMonitorOpen
               THEN LiveMount /\ staleRuns' = 0 /\ runOutput' = "none"
               ELSE UNCHANGED <<runVars, liveVars>>
            /\ UNCHANGED isLiveMonitorOpen
            /\ UNCHANGED captureVars
    /\ UNCHANGED <<now, bufferSizeSecs, incidents, audioChunks, uuidCounter, captured>>
    /\ UNCHANGED analysisVars

\* ------------------------------------------------------------ reachable inits
\* The application with a stored key, after the mount-time permission query
\* answered "granted": Init followed by CheckPermissionQuery("granted").
InitGranted ==
    /\ now = 0
    /\ apiKey = "key"
    /\ showKeyModal = FALSE
    /\ permission = "true"
    /\ isRecording = FALSE
    /\ bufferSizeSecs = 0
    /\ incidents = <<>>
    /\ analyzingIds = {}
    /\ audioChunks = <<>>
    /\ mediaRecorderRef = 0
    /\ streamRef = 0
    /\ silentAudio = "null"
    /\ recorders = [r \in StartIds |-> "none"]
    /\ flushPending = {}
    /\ promptsPending = 0
    /\ appMounted = TRUE
    /\ streams = [r \in StartIds |-> "none"]
    /\ starts = [s \in 0..MaxStarts |->
                    [pc |-> IF s = 0 THEN "returned" ELSE "idle", perm |-> "null"]]
    /\ requests = {}
    /\ storedKey = apiKey
    /\ uuidCounter = 0
    /\ requestCounter = 0
    /\ captured = <<>>
    /\ last = [op |-> "query", arg |-> 0, ret |-> 0, val |-> "granted",
               prevIncidents |-> <<>>, prevChunks |-> <<>>, prevSave |-> NoSave]
    /\ LiveUnmounted

\* The same application once monitoring runs: InitGranted followed by
\* StartRecording(1) and StartStreamSettled(1, "ok"), with the stored key absent
\* or present.  With first = TRUE the recorder has delivered its first
\* fragment already: a further Ondataavailable(1, 1).
InitRecording(keys, first) ==
    /\ now = 0
    /\ apiKey \in keys
    /\ showKeyModal = (apiKey = "")
    /\ permission = "true"
    /\ isRecording = TRUE
    /\ bufferSizeSecs = 0
    /\ incidents = <<>>
    /\ analyzingIds = {}
    /\ audioChunks = IF first THEN <<AudioChunk(1, 0)>> ELSE <<>>
    /\ mediaRecorderRef = 1
    /\ streamRef = 1
    /\ silentAudio = "playing"
    /\ recorders = [r \in StartIds |-> IF r = 1 THEN "recording" ELSE "none"]
    /\ flushPending = {}
    /\ promptsPending = 0
    /\ appMounted = TRUE
    /\ streams = [r \in StartIds |-> IF r = 1 THEN "live" ELSE "none"]
    /\ starts = [s \in 0..MaxStarts |->
                    IF s = 0 THEN [pc |-> "returned", perm |-> "null"]
                    ELSE IF s = 1 THEN [pc |-> "returned", perm |-> "true"]
                    ELSE [pc |-> "idle", perm |-> "null"]]
    /\ requests = {}
    /\ storedKey = apiKey
    /\ uuidCounter = 0
    /\ requestCounter = 0
    /\ captured = audioChunks
    /\ last = IF first
              THEN [op |-> "dataavailable", arg |-> 1, ret |-> 1, val |-> "",
                    prevIncidents |-> <<>>, prevChunks |-> <<>>, prevSave |-> NoSave]
              ELSE [op |-> "started", arg |-> 1, ret |-> 1, val |-> "ok",
                    prevIncidents |-> <<>>, prevChunks |-> <<>>, prevSave |-> NoSave]
    /\ LiveUnmounted

\* ---------------------------------------------------------------------- Spec
\* Ring buffer and retroactive save during and after a monitoring session.
Next ==
    \/ \E d \in Steps : Tick(d)
    \/ \E r \in StartIds, size \in {0, 1} :
          Len(captured) < MaxFragments /\ Ondataavailable(r, size)
    \/ Sweep
    \/ \E minutes \in SAVE_OPTIONS : uuidCounter < MaxIncidents /\ SaveIncident(minutes)
    \/ StopRecording

Spec == InitRecording({"key"}, FALSE) /\ [][Next]_vars

\* Capture session and ring buffer: start, fragments, prunes, stop, restart.
NextCapture ==
    \/ \E d \in Steps : Tick(d)
    \/ \E r \in StartIds, size \in {0, 1} :
          Len(captured) < MaxFragments /\ Ondataavailable(r, size)
    \/ Sweep
    \/ \E s \in StartIds : StartRecording(s)
    \/ \E s \in StartIds, outcome \in StartOutcomes : StartStreamSettled(s, outcome)
    \/ StopRecording

SpecCapture == InitGranted /\ [][NextCapture]_vars

\* Microphone permission from the first render on: the mount-time query, the
\* prompt of the permission modal, and start() before and after permission is
\* known.
NextPermission ==
    \/ \E state \in {"granted", "denied", "prompt"} : CheckPermissionQuery(state)
    \/ CheckPermissionPrompt
    \/ \E granted \in BOOLEAN : CheckPermissionPromptSettled(granted)
    \/ \E s \in StartIds : StartRecording(s)
    \/ \E s \in StartIds, granted \in BOOLEAN : StartPermissionChecked(s, granted)
    \/ \E s \in StartIds, outcome \in StartOutcomes : StartStreamSettled(s, outcome)
    \/ StopRecording

SpecPermission == Init /\ [][NextPermission]_vars

\* the analyse button of card i: rendered while incident.analysis is falsy,
\* disabled while the incident's analysis is in flight
AnalyzeButtonEnabled(i) ==
    /\ i \in 1..Len(incidents)
    /\ ~Truthy(incidents[i].analysis)
    /\ incidents[i].id \notin analyzingIds

\* Incident store: save, analyse from the button of a card, delete while
\* monitoring runs and the first fragment sits in the buffer.  The key is
\* stored or absent from the start and the key input is left alone; typing,
\* saving and cancelling in the key modal are events of NextAnalyze.
NextStore ==
    \/ \E d \in Steps : Tick(d)
    \/ \E minutes \in SAVE_OPTIONS : uuidCounter < MaxIncidents /\ SaveIncident(minutes)
    \/ \E i \in 1..MaxIncidents :
          requestCounter < MaxStoreRequests /\ AnalyzeButtonEnabled(i) /\ HandleAnalyze(i)
    \/ \E req \in requests, resp \in Responses : AnalyzeSettled(req, resp)
    \/ \E id \in 1..MaxIncidents : HandleDelete(id)

SpecStore == InitRecording({"", "key"}, TRUE) /\ [][NextStore]_vars

\* the newest fragment captured carries timestamp t
NewestAt(t) == captured # <<>> /\ captured[Len(captured)].timestamp = t

\* the newest incident stored was saved at t
SavedAt(t) == incidents # <<>> /\ incidents[1].timestamp = t

\* Incidents over the life of the buffer: fragments arrive and are pruned
\* while incidents are saved (one fragment and one save per clock value at
\* most), analysed and deleted from their cards.  The
\* analyse button is rendered for an incident without analysis and disabled
\* while its analysis is in flight; the delete button is on a stored incident.
NextIncident ==
    \/ \E d \in Steps : Tick(d)
    \/ Len(captured) < MaxFragments /\ ~NewestAt(now) /\ Ondataavailable(1, 1)
    \/ Sweep
    \/ uuidCounter < MaxIncidents /\ ~SavedAt(now) /\ SaveIncident(30)
    \/ \E i \in 1..MaxIncidents : AnalyzeButtonEnabled(i) /\ HandleAnalyze(i)
    \/ \E req \in requests : AnalyzeSettled(req, "full1")
    \/ \E id \in IncidentIds(incidents) : HandleDelete(id)

SpecIncident == InitRecording({"key"}, FALSE) /\ [][NextIncident]_vars

\* Analysis from the incident cards: incidents are saved, analysed through
\* the analyse button of their card with every outcome of the request, and
\* deleted, while a key is typed, saved or cancelled in the key modal, the
\* modal is opened from the header, and the Live Brain Map button is used.
NextAnalyze ==
    \/ uuidCounter < MaxIncidents /\ SaveIncident(30)
    \/ \E i \in 1..MaxIncidents : AnalyzeButtonEnabled(i) /\ HandleAnalyze(i)
    \/ \E req \in requests, resp \in Responses : AnalyzeSettled(req, resp)
    \/ \E id \in IncidentIds(incidents) : HandleDelete(id)
    \/ \E value \in KeyValues : TypeApiKey(value)
    \/ SaveApiKey
    \/ CancelKeyModal
    \/ OpenKeySettings
    \/ HandleLiveBrainMap
    \/ ToggleStealth

SpecAnalyze == InitRecording({"", "key"}, TRUE) /\ [][NextAnalyze]_vars

\* The every-second scenario: monitoring runs for ScenarioSeconds seconds, the
\* recorder delivers one fragment at every full second, the interval callback
\* runs at every instant once that instant's fragment is in, and the scenario
\* ends with save(5).  The clock moves in half slices, so that a save or a
\* sweep falls either on a fragment's timestamp or between two of them.
ScenarioStep == CHUNK_DURATION_MS \div 2
FragmentDue == now > 0 /\ now % CHUNK_DURATION_MS = 0 /\ Len(captured) < now \div CHUNK_DURATION_MS
Swept == bufferSizeSecs = SizeSeconds(audioChunks, now) /\ audioChunks = ValidChunks(audioChunks, now)

NextScenario ==
    \/ /\ ~FragmentDue /\ Swept /\ uuidCounter = 0
       /\ now + ScenarioStep <= ScenarioSeconds * CHUNK_DURATION_MS
       /\ Tick(ScenarioStep)
    \/ FragmentDue /\ uuidCounter = 0 /\ Ondataavailable(1, 1)
    \/ ~FragmentDue /\ ~Swept /\ uuidCounter = 0 /\ Sweep
    \/ uuidCounter = 0 /\ SaveIncident(5)

\* the scenario from the start of monitoring
SpecScenarioFromStart == InitRecording({"key"}, FALSE) /\ [][NextScenario]_vars

\* The scenario one second before the buffer window is full: the state of
\* SpecScenarioFromStart after the sweep of second ScenarioStart
\* (ScenarioStartIsReached states that under SpecScenarioFromStart).
ScenarioStart == (BUFFER_DURATION_MS \div CHUNK_DURATION_MS) - 1
ScenarioChunks(n) == [i \in 1..n |-> AudioChunk(i, i * CHUNK_DURATION_MS)]

ScenarioStartState ==
    /\ now = ScenarioStart * CHUNK_DURATION_MS
    /\ apiKey = "key"
    /\ showKeyModal = FALSE
    /\ permission = "true"
    /\ isRecording = TRUE
    /\ bufferSizeSecs = ScenarioStart
    /\ incidents = <<>>
    /\ analyzingIds = {}
    /\ audioChunks = ScenarioChunks(ScenarioStart)
    /\ mediaRecorderRef = 1
    /\ streamRef = 1
    /\ silentAudio = "playing"
    /\ recorders = [r \in StartIds |-> IF r = 1 THEN "recording" ELSE "none"]
    /\ flushPending = {}
    /\ promptsPending = 0
    /\ appMounted = TRUE
    /\ streams = [r \in StartIds |-> IF r = 1 THEN "live" ELSE "none"]
    /\ starts = [s \in 0..MaxStarts |->
                    IF s = 0 THEN [pc |-> "returned", perm |-> "null"]
                    ELSE IF s = 1 THEN [pc |-> "returned", perm |-> "true"]
                    ELSE [pc |-> "idle", perm |-> "null"]]
    /\ requests = {}
    /\ storedKey = apiKey
    /\ uuidCounter = 0
    /\ requestCounter = 0
    /\ captured = ScenarioChunks(ScenarioStart)
    /\ last = [op |-> "sweep", arg |-> 0, ret |-> ScenarioStart, val |-> "",
               prevIncidents |-> <<>>, prevChunks |-> ScenarioChunks(ScenarioStart),
               prevSave |-> NoSave]
    /\ LiveUnmounted

ScenarioStartIsReached ==
    (now = ScenarioStart * CHUNK_DURATION_MS /\ last.op = "sweep") => ScenarioStartState

SpecScenario == ScenarioStartState /\ [][NextScenario]_vars

\* ========================================================= live duplex session
\* LiveTacticalMonitor (src/unnamed/part_000, from line 113).  The streaming
\* connection behaves as a WebSocket: it opens at most once, an error may be
\* reported while it is connecting or open and is followed by its close, and
\* nothing is delivered once it has closed.  The promise of ai.live.connect
\* resolves when the connection has opened.

\* the visualisation effect, re-run when status changes: the cleanup of the
\* previous run cancels the frame request, and the run for "connected" starts
\* the requestAnimationFrame loop
VisualizerFrame(oldStatus, newStatus, frame) ==
    IF newStatus = oldStatus THEN frame
    ELSE IF newStatus = "connected" THEN "requested"
    ELSE IF frame = "requested" THEN "cancelled"
    ELSE frame

\* setStatus(s) without the test of isMounted
SetStatusUnguarded(s) ==
    /\ status' = s
    /\ animationFrame' = VisualizerFrame(status, s, animationFrame)

\* if (isMounted) setStatus(s), and the effects of the render that follows
SetStatus(s) ==
    /\ status' = IF isMounted THEN s ELSE status
    /\ animationFrame' = IF isMounted THEN VisualizerFrame(status, s, animationFrame)
                         ELSE animationFrame

\* the catch block of startSession
LiveStartFailed ==
    /\ livePc' = "returned"
    /\ SetStatus("error")

\* await inputCtx.resume() settles; a closed context rejects
LiveInputResumed(outcome) ==
    /\ livePc = "resumeInput"
    /\ outcome \in {"ok", "rejected"}
    /\ outcome = "ok" => inputContext = "open"
    /\ IF outcome = "ok"
       THEN livePc' = "getUserMedia" /\ UNCHANGED <<status, animationFrame>>
       ELSE LiveStartFailed
    /\ liveLast' = LiveLast("inputResumed")
    /\ UNCHANGED <<isMounted, session, inputContext, outputContext, liveStream,
                   socket, processorActive, uploads>>
    /\ UNCHANGED messageVars
    /\ UNCHANGED <<appVars, overlayVars>>

\* await getUserMedia settles and startSession runs to await outputCtx.resume().
\* "rejected": no stream.  "nodeThrows": the stream is there and a node
\* creation on inputCtx throws, which a closed context may do.  "ok": the
\* graph is built and the output context created.
LiveGetUserMediaSettled(outcome) ==
    /\ livePc = "getUserMedia"
    /\ outcome \in {"ok", "rejected", "nodeThrows"}
    /\ outcome = "nodeThrows" => inputContext = "closed"
    /\ liveStream' = IF outcome = "rejected" THEN liveStream ELSE "live"
    /\ IF outcome = "ok"
       THEN /\ livePc' = "resumeOutput"
            /\ outputContext' = "open"
            /\ currentTime' = 0
            /\ UNCHANGED <<status, animationFrame>>
       ELSE /\ LiveStartFailed
            /\ UNCHANGED <<outputContext, currentTime>>
    /\ runOutput' = IF outcome = "ok" THEN "ref" ELSE runOutput
    /\ liveLast' = LiveLast("getUserMedia")
    /\ UNCHANGED <<isMounted, session, inputContext, socket, processorActive, uploads>>
    /\ UNCHANGED <<transcription, nextStartTime, audioSources, clips, interruptedAt,
                   messageCount>>
    /\ UNCHANGED <<appVars, stealthMode, isLiveMonitorOpen, staleRuns>>

\* the state of const outputCtx of the latest run, which is the context of
\* outputContextRef until a replaced run assigns its own to the ref
OwnOutputContext == IF runOutput = "ref" THEN outputContext ELSE runOutput

\* await outputCtx.resume() settles, on the context the run created itself; a
\* closed context rejects.  Then ai.live.connect is called and startSession
\* returns without awaiting it
LiveOutputResumed(outcome) ==
    /\ livePc = "resumeOutput"
    /\ outcome \in {"ok", "rejected"}
    /\ outcome = "ok" => OwnOutputContext = "open"
    /\ IF outcome = "ok"
       THEN /\ livePc' = "returned"
            /\ socket' = "connecting"
            /\ UNCHANGED <<status, animationFrame>>
       ELSE /\ LiveStartFailed
            /\ UNCHANGED socket
    /\ liveLast' = LiveLast("outputResumed")
    /\ UNCHANGED <<isMounted, session, inputContext, outputContext, liveStream,
                   processorActive, uploads>>
    /\ UNCHANGED messageVars
    /\ UNCHANGED <<appVars, overlayVars>>

\* callbacks.onopen
LiveOnopen ==
    /\ socket = "connecting"
    /\ socket' = "open"
    /\ SetStatus("connected")
    /\ processorActive' = TRUE
    /\ liveLast' = LiveLast("open")
    /\ UNCHANGED <<livePc, isMounted, session, inputContext, outputContext,
                   liveStream, uploads>>
    /\ UNCHANGED messageVars
    /\ UNCHANGED <<appVars, overlayVars>>

\* callbacks.onerror
LiveOnerror ==
    /\ socket \in {"connecting", "open"}
    /\ socket' = "failed"
    /\ SetStatus("error")
    /\ liveLast' = LiveLast("error")
    /\ UNCHANGED <<livePc, isMounted, session, inputContext, outputContext,
                   liveStream, processorActive, uploads>>
    /\ UNCHANGED messageVars
    /\ UNCHANGED <<appVars, overlayVars>>

\* callbacks.onclose
LiveOnclose ==
    /\ socket \in {"open", "failed", "closing"}
    /\ socket' = "closed"
    /\ SetStatus("disconnected")
    /\ liveLast' = LiveLast("close")
    /\ UNCHANGED <<livePc, isMounted, session, inputContext, outputContext,
                   liveStream, processorActive, uploads>>
    /\ UNCHANGED messageVars
    /\ UNCHANGED <<appVars, overlayVars>>

\* processor.onaudioprocess with the then-callback on sessionPromise: a block
\* is produced while the input context runs on a live stream
LiveOnaudioprocess ==
    /\ processorActive /\ inputContext = "open" /\ liveStream = "live"
    /\ session' = "session"
    /\ uploads' = uploads + 1
    /\ liveLast' = LiveLast("audioprocess")
    /\ UNCHANGED <<livePc, isMounted, status, inputContext, outputContext,
                   animationFrame, liveStream, socket, processorActive>>
    /\ UNCHANGED messageVars
    /\ UNCHANGED <<appVars, overlayVars>>

\* the overlay is closed with its close button: onClose sets
\* isLiveMonitorOpen to false and the component is unmounted; a cleanup that
\* throws unmounts the tree of App
LiveCleanup(outcome) ==
    /\ isMounted
    /\ isLiveMonitorOpen' = FALSE
    /\ LiveUnmount(outcome)
    /\ CleanupSettled(outcome)
    /\ UNCHANGED <<stealthMode, runVars>>
    /\ UNCHANGED <<now, bufferSizeSecs, incidents, audioChunks, uuidCounter, captured, last>>
    /\ UNCHANGED analysisVars

\* await getUserMedia settles in a run of the session effect that a later run
\* has replaced: on "ok" the run builds its graph and puts its output context
\* in outputContextRef, which the component shares between the runs
StaleGetUserMediaSettled(outcome) ==
    /\ staleRuns > 0
    /\ outcome \in {"ok", "rejected", "nodeThrows"}
    /\ staleRuns' = staleRuns - 1
    /\ IF outcome = "ok"
       THEN /\ outputContext' = "open"
            /\ currentTime' = 0
            /\ runOutput' = OwnOutputContext
       ELSE UNCHANGED <<outputContext, currentTime, runOutput>>
    /\ liveLast' = LiveLast("staleGetUserMedia")
    /\ UNCHANGED <<livePc, isMounted, session, status, inputContext, animationFrame,
                   liveStream, socket, processorActive, uploads>>
    /\ UNCHANGED <<transcription, nextStartTime, audioSources, clips, interruptedAt,
                   messageCount>>
    /\ UNCHANGED <<stealthMode, isLiveMonitorOpen>>
    /\ UNCHANGED appVars

\* ------------------------------------------------------------ download flow
Ellipsis == <<".", ".", ".">>
\* "\n[INTERRUPTED]\n> "
InterruptedMarker == <<"\n", "[", "I", "N", "T", "E", "R", "R", "U", "P", "T", "E", "D",
                       "]", "\n", ">", " ">>
\* "\n\n> "
TurnSeparator == <<"\n", "\n", ">", " ">>

\* the text of a transcription fragment: n characters, a letter per message
Letters == <<"a", "b", "c", "d", "e", "f">>
TextOf(n, k) == [i \in 1..n |-> Letters[((k - 1) % Len(Letters)) + 1]]

\* str.slice(-n), for n > 0
LastChars(str, n) ==
    IF Len(str) <= n THEN str ELSE SubSeq(str, Len(str) - n + 1, Len(str))

\* the updater of setTranscription for a fragment
AppendText(prev, text) ==
    IF Len(prev \o text) > TranscriptCap
    THEN Ellipsis \o LastChars(prev \o text, TranscriptCap)
    ELSE prev \o text

\* src.start(nextStartTimeRef.current) with the cursor as it is
ScheduleStartAtCursor(cursor, t) == cursor

\* if (nextStartTimeRef.current < currentTime) nextStartTimeRef.current = currentTime
ScheduleStart(cursor, t) == IF cursor < t THEN t ELSE cursor

\* the cursor stays at the start of the clip
KeepCursor(start, duration) == start

\* nextStartTimeRef.current += audioBuffer.duration
AdvanceCursor(start, duration) == start + duration

SourceSet(sources) == {sources[i] : i \in 1..Len(sources)}

\* audioSourcesRef.current.forEach(src => src.stop()) at time t
StopSources(cl, sources, t) ==
    [c \in 1..Len(cl) |->
        IF c \in SourceSet(sources) /\ cl[c].stoppedAt = -1
        THEN [cl[c] EXCEPT !.stoppedAt = t]
        ELSE cl[c]]

\* the source node of a clip, started at start; with it the clock, the cursor
\* and the latest interruption at the time of scheduling
Clip(start, duration) ==
    [start |-> start, duration |-> duration, scheduledAt |-> currentTime,
     cursor |-> nextStartTime, interruptedAt |-> interruptedAt,
     stoppedAt |-> -1, ended |-> FALSE]

\* a transcription text is taken for an audio payload as well
HasAudioOrText(msg, ctx) == (msg.audio > 0 \/ msg.text > 0) /\ ctx # "null"

\* if (audioData && outputContextRef.current)
HasAudio(msg, ctx) == msg.audio > 0 /\ ctx # "null"

\* the transcription is replaced by the separator
ReplaceWithSeparator(prev) == TurnSeparator

\* the updater of setTranscription for turnComplete
AppendSeparator(prev) == prev \o TurnSeparator

\* what a message carried, as far as the handler can use it: the text, the
\* duration of the audio when there is an output context, turnComplete
Carried(op, msg) ==
    [op |-> op, prevTranscription |-> transcription,
     text |-> TextOf(msg.text, messageCount + 1),
     audio |-> IF outputContext # "null" THEN msg.audio ELSE 0,
     turnComplete |-> msg.turnComplete]

\* a server message: interrupted, the duration of the audio payload (0 for
\* none), the length of the transcription text (0 for none), turnComplete
LiveServerMessage(i, a, t, c) == [interrupted |-> i, audio |-> a, text |-> t, turnComplete |-> c]

\* callbacks.onmessage
LiveOnmessage(msg) ==
    /\ socket = "open"
    /\ messageCount' = messageCount + 1
    /\ IF ~isMounted
       THEN /\ UNCHANGED <<transcription, nextStartTime, audioSources, clips, interruptedAt>>
            /\ liveLast' = Carried("ignored", msg)
       ELSE IF msg.interrupted
       THEN /\ clips' = StopSources(clips, audioSources, currentTime)
            /\ audioSources' = <<>>
            /\ nextStartTime' = 0
            /\ transcription' = transcription \o InterruptedMarker
            /\ interruptedAt' = currentTime
            /\ liveLast' = Carried("interrupted", msg)
       ELSE /\ IF HasAudio(msg, outputContext)
               THEN LET start == ScheduleStart(nextStartTime, currentTime) IN
                    /\ clips' = Append(clips, Clip(start, msg.audio))
                    /\ audioSources' = Append(audioSources, Len(clips) + 1)
                    /\ nextStartTime' = AdvanceCursor(start, msg.audio)
               ELSE UNCHANGED <<clips, audioSources, nextStartTime>>
            /\ LET text == TextOf(msg.text, messageCount + 1)
                   withText == IF msg.text > 0 THEN AppendText(transcription, text)
                               ELSE transcription
               IN /\ transcription' = IF msg.turnComplete THEN AppendSeparator(withText)
                                      ELSE withText
                  /\ liveLast' = Carried("message", msg)
            /\ UNCHANGED interruptedAt
    /\ UNCHANGED currentTime
    /\ UNCHANGED sessionVars
    /\ UNCHANGED <<appVars, overlayVars>>

\* the clock of the running output context
LiveTick ==
    /\ outputContext = "open"
    /\ currentTime' = currentTime + 1
    /\ liveLast' = LiveLast("tick")
    /\ UNCHANGED <<transcription, nextStartTime, audioSources, clips, interruptedAt,
                   messageCount>>
    /\ UNCHANGED sessionVars
    /\ UNCHANGED <<appVars, overlayVars>>

\* src.onended of clip c, once it has played to its end or has been stopped
LiveSourceEnded(c) ==
    /\ c \in 1..Len(clips)
    /\ ~clips[c].ended
    /\ clips[c].stoppedAt # -1 \/ clips[c].start + clips[c].duration <= currentTime
    /\ clips' = [clips EXCEPT ![c].ended = TRUE]
    /\ audioSources' = SelectSeq(audioSources, LAMBDA s : s # c)
    /\ liveLast' = LiveLast("ended")
    /\ UNCHANGED <<transcription, nextStartTime, currentTime, interruptedAt, messageCount>>
    /\ UNCHANGED sessionVars
    /\ UNCHANGED <<appVars, overlayVars>>

\* The life of a live session: startup, the events of the connection,
\* microphone blocks, the close of the overlay at any point, and the overlay
\* opened again after it.
NextLive ==
    \/ HandleLiveBrainMap
    \/ \E outcome \in {"ok", "rejected"} : LiveInputResumed(outcome)
    \/ \E outcome \in {"ok", "rejected", "nodeThrows"} : LiveGetUserMediaSettled(outcome)
    \/ \E outcome \in {"ok", "rejected"} : LiveOutputResumed(outcome)
    \/ LiveOnopen
    \/ LiveOnerror
    \/ LiveOnclose
    \/ uploads < MaxUploads /\ LiveOnaudioprocess
    \/ \E msg \in {LiveServerMessage(TRUE, 0, 0, FALSE), LiveServerMessage(FALSE, 0, 0, TRUE),
                   LiveServerMessage(FALSE, 1, 1, FALSE)} :
          messageCount < MaxMessages /\ LiveOnmessage(msg)
    \/ \E outcome \in {"ok", "closeThrows"} : LiveCleanup(outcome)

SpecLive == InitRecording({"key"}, FALSE) /\ [][NextLive]_vars

\* The overlay under the page: a session starts, connects and uploads, while
\* the key is retyped in the key modal (the session effect runs again), the
\* stealth screen is switched on and off (the overlay is unmounted and
\* rendered anew), and the overlay is closed and opened again.
NextOverlay ==
    \/ HandleLiveBrainMap
    \/ LiveInputResumed("ok")
    \/ LiveGetUserMediaSettled("ok")
    \/ LiveOutputResumed("ok")
    \/ LiveOnopen
    \/ LiveOnclose
    \/ uploads < MaxUploads /\ LiveOnaudioprocess
    \/ \E outcome \in {"ok", "closeThrows"} : LiveCleanup(outcome)
    \/ ToggleStealth
    \/ OpenKeySettings
    \/ \E value \in KeyValues : TypeApiKey(value)
    \/ \E outcome \in {"ok", "rejected", "nodeThrows"} : StaleGetUserMediaSettled(outcome)

SpecOverlay == InitRecording({"key"}, FALSE) /\ [][NextOverlay]_vars

\* Playback of the synthesized audio in a connected session: audio payloads
\* of one and three clock units and interruptions, while the output clock
\* runs and clips end.
PlaybackMessages ==
    {LiveServerMessage(TRUE, 0, 0, FALSE), LiveServerMessage(FALSE, 1, 0, FALSE),
     LiveServerMessage(FALSE, 3, 0, FALSE)}

NextPlayback ==
    \/ HandleLiveBrainMap
    \/ LiveInputResumed("ok")
    \/ LiveGetUserMediaSettled("ok")
    \/ LiveOutputResumed("ok")
    \/ LiveOnopen
    \/ \E msg \in PlaybackMessages : messageCount < MaxMessages /\ LiveOnmessage(msg)
    \/ currentTime < MaxTime /\ LiveTick
    \/ \E c \in 1..MaxMessages : LiveSourceEnded(c)

SpecPlayback == InitRecording({"key"}, FALSE) /\ [][NextPlayback]_vars

\* The transcription of a connected session: the messages of the service,
\* which are interruptions, audio payloads, fragments of one character and of
\* TranscriptCap characters, and turn completions; and a message that carries
\* audio, text and turnComplete together, without and with the interruption
\* signal.
TranscriptMessages ==
    {LiveServerMessage(TRUE, 0, 0, FALSE), LiveServerMessage(FALSE, 1, 0, FALSE),
     LiveServerMessage(FALSE, 0, 1, FALSE),
     LiveServerMessage(FALSE, 0, TranscriptCap, FALSE), LiveServerMessage(FALSE, 0, 0, TRUE),
     LiveServerMessage(FALSE, 1, 1, TRUE), LiveServerMessage(TRUE, 1, 1, TRUE)}

NextTranscript ==
    \/ HandleLiveBrainMap
    \/ LiveInputResumed("ok")
    \/ LiveGetUserMediaSettled("ok")
    \/ LiveOutputResumed("ok")
    \/ LiveOnopen
    \/ \E msg \in TranscriptMessages : messageCount < MaxMessages /\ LiveOnmessage(msg)

SpecTranscript == InitRecording({"key"}, FALSE) /\ [][NextTranscript]_vars

\* ===================================================================== claims
SaveMs(minutes) == minutes * 60 * 1000
DataOf(chunks, from) == {chunks[i].data : i \in {j \in 1..Len(chunks) : chunks[j].timestamp >= from}}
BlobSet(blob) == {blob[i] : i \in 1..Len(blob)}
StrictlyIncreasing(blob) == \A i \in 1..(Len(blob) - 1) : blob[i] < blob[i + 1]

\* C1 (P1, window correctness): a save at time now with lookback w returns
\* exactly the buffered fragments with timestamp >= now - w, in append order
\* (fragment data are numbered in append order), and no others; when none
\* qualifies no incident is created.
C1_WindowCorrect ==
    last.op = "save" =>
        /\ BlobSet(SavedBlob) = DataOf(audioChunks, now - SaveMs(last.arg))
        /\ StrictlyIncreasing(SavedBlob)
        /\ last.ret = 0 => incidents = last.prevIncidents
        /\ last.ret # 0 => incidents[1].id = last.ret /\ incidents[1].timestamp = now

\* a save that took two fragments, one of them exactly w old, and left one out
C1_Witness ==
    /\ last.op = "save" /\ last.ret # 0
    /\ Len(SavedBlob) = 2 /\ Len(audioChunks) = 3
    /\ \E i \in 1..Len(audioChunks) : audioChunks[i].timestamp = now - SaveMs(last.arg)

\* C2 (P3, save is window-bounded): a save with a lookback of at most the 30
\* minute buffer window includes exactly the fragments ever captured whose
\* timestamp lies within the lookback; none of them was dropped by a prune.
C2_SaveCoversCaptured ==
    (last.op = "save" /\ SaveMs(last.arg) <= BUFFER_DURATION_MS) =>
        BlobSet(SavedBlob) = DataOf(captured, now - SaveMs(last.arg))

\* C3 (P2, prune monotonicity): right after the prune of an append or after a
\* sweep at time now no fragment is older than now - BUFFER_DURATION_MS, and
\* pruning again at the same now, with the prune of an append or with the
\* sweep, changes nothing.
C3_PruneMonotone ==
    (\/ last.op = "dataavailable" /\ last.ret > 0
     \/ last.op = "sweep") =>
        /\ \A i \in 1..Len(audioChunks) :
              ~(audioChunks[i].timestamp < now - BUFFER_DURATION_MS)
        /\ PruneHead(audioChunks, now - BUFFER_DURATION_MS) = audioChunks
        /\ SweepChunks(audioChunks, now) = audioChunks

\* C4 (P4, no-op save): a save on an empty buffer, or on a buffer whose
\* fragments are all older than the lookback, returns null and leaves the
\* incident list as it was.
C4_NoOpSave ==
    (/\ last.op = "save"
     /\ \A i \in 1..Len(audioChunks) : audioChunks[i].timestamp < now - SaveMs(last.arg))
        => last.ret = 0 /\ incidents = last.prevIncidents

\* a save on a buffer that holds only stale fragments, with an incident stored
C4_Witness ==
    /\ last.op = "save" /\ last.ret = 0
    /\ audioChunks # <<>> /\ incidents # <<>>
    /\ \A i \in 1..Len(audioChunks) : audioChunks[i].timestamp < now - SaveMs(last.arg)

\* C5: the buffer is ordered by timestamp, non-decreasing, in every reachable
\* state, and a prune (of an append or of a sweep) removes a prefix only.
C5_OrderedPrefixPrune ==
    /\ IsSorted(Timestamps(audioChunks))
    /\ last.op = "sweep" => IsPrefixRemoval(last.prevChunks, audioChunks)
    /\ (last.op = "dataavailable" /\ last.ret > 0) =>
          /\ audioChunks # <<>>
          /\ audioChunks[Len(audioChunks)] = AudioChunk(Len(captured), now)
          /\ IsPrefixRemoval(last.prevChunks,
                             SubSeq(audioChunks, 1, Len(audioChunks) - 1))

\* after a stop and a restart, a sweep that dropped a fragment and kept one
C5_Witness ==
    /\ last.op = "sweep"
    /\ recorders[1] = "inactive" /\ recorders[2] = "recording"
    /\ audioChunks # <<>> /\ Len(audioChunks) < Len(last.prevChunks)

\* C6 (scenario, buffer cap): with one fragment per second the size the sweep
\* reports is never more than 1800, and is 1800 once 30 minutes have passed.
C6_SizeCapped ==
    /\ bufferSizeSecs <= 1800
    /\ (last.op = "sweep" /\ now >= BUFFER_DURATION_MS) => bufferSizeSecs = 1800

\* the sweep after the first fragment that had to push one out: 1801 fragments
\* captured, 1800 reported
C6_Witness ==
    /\ last.op = "sweep" /\ bufferSizeSecs = 1800
    /\ Len(captured) = 1801 /\ Len(audioChunks) < Len(last.prevChunks)

LastData(n) == {d \in 1..Len(captured) : d > Len(captured) - n}

\* C7 (scenario, 5-minute save), as claimed: with one fragment per second,
\* save(5) takes exactly the last 300 fragments, also when the save instant is
\* the newest fragment's timestamp.
C7_SaveTakes300 ==
    (last.op = "save" /\ last.arg = 5 /\ Len(captured) > 300) =>
        /\ BlobSet(SavedBlob) = LastData(300)
        /\ StrictlyIncreasing(SavedBlob)

\* C7 as amended: save(5) takes the last 300 fragments when the save instant
\* is later than the newest fragment's timestamp, and the last 301 when the
\* two coincide.
C7_SaveTakesWindow ==
    (last.op = "save" /\ last.arg = 5 /\ Len(captured) > 300) =>
        /\ BlobSet(SavedBlob) = IF NewestAt(now) THEN LastData(301) ELSE LastData(300)
        /\ StrictlyIncreasing(SavedBlob)
        /\ Len(SavedBlob) = Cardinality(BlobSet(SavedBlob))

\* a save at the instant of the newest fragment
C7_Witness ==
    /\ last.op = "save" /\ last.arg = 5 /\ Len(captured) > 300
    /\ NewestAt(now) /\ Len(SavedBlob) = 301

\* C8: the completion of an analysis for an incident that has been deleted
\* leaves the incident list as it was.
C8_DeferredAttachNoOp ==
    (last.op = "analyzed" /\ last.arg \notin IncidentIds(last.prevIncidents))
        => incidents = last.prevIncidents

\* a successful analysis completing after its incident was deleted, with
\* another incident stored
C8_Witness ==
    /\ last.op = "analyzed" /\ last.ret = 1
    /\ last.arg \notin IncidentIds(last.prevIncidents)
    /\ last.prevIncidents # <<>>

\* the incident of the analysis that completed last carried the value of an
\* earlier analysis when it completed
C9_AnalysedBefore ==
    \E i \in 1..Len(last.prevIncidents) :
        /\ last.prevIncidents[i].id = last.arg
        /\ last.prevIncidents[i].analysis # NoAnalysis

\* C9 (P6, analysis overwrite): when a second analysis of a stored incident
\* completes with a result, the incident's analysis is that result alone, in
\* place of the value the earlier analysis attached, and nothing else of the
\* list changes.
C9_AnalysisOverwrite ==
    (last.op = "analyzed" /\ last.ret = 1 /\ C9_AnalysedBefore) =>
        /\ Len(incidents) = Len(last.prevIncidents)
        /\ \A i \in 1..Len(incidents) :
              IF last.prevIncidents[i].id = last.arg
              THEN incidents[i] = [last.prevIncidents[i] EXCEPT !.analysis = last.val]
              ELSE incidents[i] = last.prevIncidents[i]

\* C10: a save puts the new incident at the head and leaves the others and
\* their order alone; the list is always ordered most recent first.
C10_HeadInsertOrdered ==
    /\ (last.op = "save" /\ last.ret # 0) =>
          /\ incidents # <<>>
          /\ incidents[1].id = last.ret
          /\ Tail(incidents) = last.prevIncidents
    /\ \A i \in 1..Len(incidents) : \A j \in 1..Len(incidents) :
          i < j => /\ incidents[i].timestamp >= incidents[j].timestamp
                   /\ incidents[i].id > incidents[j].id

\* a second save, later than the first, onto an analysed incident
C10_Witness ==
    /\ last.op = "save" /\ Len(incidents) = 2
    /\ incidents[1].timestamp > incidents[2].timestamp
    /\ incidents[2].analysis # NoAnalysis

BufferData == {audioChunks[i].data : i \in 1..Len(audioChunks)}
CapturedData == {captured[i].data : i \in 1..Len(captured)}

\* C11: whatever handler ran last (an append with its prune, a sweep, a save,
\* the completion of an analysis, a delete), every incident that was stored
\* before it and still is has the id, timestamp, durationSeconds and blob it
\* had; the blob is made of captured fragments and durationSeconds is their
\* number.
C11_IncidentFrame ==
    /\ \A i \in 1..Len(incidents) : \A j \in 1..Len(last.prevIncidents) :
          incidents[i].id = last.prevIncidents[j].id =>
              /\ incidents[i].timestamp = last.prevIncidents[j].timestamp
              /\ incidents[i].durationSeconds = last.prevIncidents[j].durationSeconds
              /\ incidents[i].blob = last.prevIncidents[j].blob
    /\ \A i \in 1..Len(incidents) :
          /\ BlobSet(incidents[i].blob) \subseteq CapturedData
          /\ incidents[i].durationSeconds = Len(incidents[i].blob)
          /\ incidents[i].timestamp <= now

\* a prune that dropped a fragment an analysed incident was built from
C11_Witness ==
    /\ last.op \in {"sweep", "dataavailable"}
    /\ Len(audioChunks) < Len(last.prevChunks) + (IF last.op = "sweep" THEN 0 ELSE 1)
    /\ \E i \in 1..Len(incidents) :
          /\ incidents[i].analysis # NoAnalysis
          /\ incidents[i].timestamp < now
          /\ ~(BlobSet(incidents[i].blob) \subseteq BufferData)

\* C12: a delete removes the incident with the given id and no other, keeps
\* the order of the rest, and deleting the same id again, or an id that is not
\* stored, changes nothing.
C12_DeleteOnlyThatOne ==
    last.op = "delete" =>
        /\ last.arg \notin IncidentIds(incidents)
        /\ IncidentIds(incidents) = IncidentIds(last.prevIncidents) \ {last.arg}
        /\ incidents = SelectSeq(last.prevIncidents, LAMBDA inc : inc \in
                                    {incidents[k] : k \in 1..Len(incidents)})
        /\ Len(incidents) >= Len(last.prevIncidents) - 1
        /\ last.arg \notin IncidentIds(last.prevIncidents) => incidents = last.prevIncidents
        /\ DeleteIncident(incidents, last.arg) = incidents

\* a delete of an id that was stored and deleted before, with the newer
\* incident still stored
C12_Witness ==
    /\ last.op = "delete" /\ last.arg <= uuidCounter
    /\ last.arg \notin IncidentIds(last.prevIncidents)
    /\ last.prevIncidents # <<>>
    /\ last.prevIncidents[1].id > last.arg

FailingResponses == {"networkError", "noText", "malformed"}

\* C13: when the service call rejects, returns no text or returns text that
\* does not parse, the completion leaves every incident, the analysed one
\* included, as it was, the incident is no longer marked as analysing, and the
\* request is gone.
C13_FailureLeavesIncident ==
    (last.op = "analyzed" /\ last.val \in FailingResponses) =>
        /\ last.ret = 0
        /\ incidents = last.prevIncidents
        /\ last.arg \notin analyzingIds
        /\ \A req \in requests : req.rid <= requestCounter

\* C14: a response that parses but lacks a required field, or whose
\* threatLevel is outside the enum, makes the analysis fail; no stored
\* incident carries an analysis that is not a complete IncidentAnalysis.
C14_NoPartialAnalysis ==
    /\ (last.op = "analyzed" /\ ~IsIncidentAnalysis(last.val)) => last.ret = 0
    /\ \A i \in 1..Len(incidents) :
          incidents[i].analysis # NoAnalysis => IsIncidentAnalysis(incidents[i].analysis)

StatusMoves == {<<"connecting", "connected">>, <<"connecting", "error">>,
                <<"connected", "error">>, <<"connected", "disconnected">>}

\* C15: the status of an overlay starts at connecting; every change of the
\* status of that overlay (a newly rendered overlay starts over) is one of
\* connecting -> connected, connecting -> error, connected -> error,
\* connected -> disconnected, so that disconnected and error are never left.
C15_StatusMachine ==
    [][(status' # status /\ liveLast'.op # "mount") =>
          <<status, status'>> \in StatusMoves]_vars

LiveClosed == livePc # "unmounted" /\ ~isMounted

\* C19: once the overlay of a session that was connected has been closed, the
\* microphone stream is no longer live, the connection is closed or closing,
\* and no animation frame is requested.
C19_CloseReleasesAll ==
    (LiveClosed /\ status = "connected") =>
        /\ liveStream # "live"
        /\ socket \notin {"connecting", "open"}
        /\ animationFrame # "requested"

\* C20: when the overlay was closed before the session connected, then once
\* startSession has returned and the handshake is over no microphone stream
\* is live, no connection is open and no block has been uploaded.
C20_CloseDuringStartupSafe ==
    (LiveClosed /\ status = "connecting" /\ livePc = "returned" /\ socket # "connecting") =>
        /\ liveStream # "live"
        /\ socket # "open"
        /\ uploads = 0

ClipEnd(c) == clips[c].start + clips[c].duration
MaxOf(a, b) == IF a >= b THEN a ELSE b

\* C16 (P5): right after an interruption is handled the set of scheduled
\* sources is empty and every clip started before has been stopped or had
\* played to its end; every clip scheduled after an interruption starts no
\* earlier than the time of that interruption.
C16_InterruptionClearsSchedule ==
    /\ liveLast.op = "interrupted" =>
          /\ audioSources = <<>>
          /\ interruptedAt = currentTime
          /\ \A c \in 1..Len(clips) :
                clips[c].stoppedAt # -1 \/ ClipEnd(c) <= currentTime
    /\ \A c \in 1..Len(clips) : clips[c].start >= clips[c].interruptedAt

\* a clip scheduled after an interruption that cut a clip still to play, and
\* starting before the end that clip had been given
C16_Witness ==
    /\ liveLast.op = "message" /\ liveLast.audio > 0
    /\ \E c \in 1..Len(clips) : \E d \in 1..(c - 1) :
          /\ clips[c].interruptedAt > 0
          /\ clips[d].stoppedAt = clips[c].interruptedAt
          /\ ClipEnd(d) > clips[d].stoppedAt
          /\ clips[c].start < ClipEnd(d)

\* C17: every clip starts at the larger of the output clock and the cursor,
\* and the cursor is then the end of that clip; so no clip starts before the
\* time it was scheduled at, a clip starts no earlier than the end of every
\* clip scheduled before it that was not stopped, and starts are in the order
\* of arrival.
C17_CursorScheduling ==
    /\ \A c \in 1..Len(clips) :
          /\ clips[c].start = MaxOf(clips[c].scheduledAt, clips[c].cursor)
          /\ clips[c].start >= clips[c].scheduledAt
    /\ (liveLast.op = "message" /\ liveLast.audio > 0) =>
          /\ clips # <<>>
          /\ clips[Len(clips)].duration = liveLast.audio
          /\ nextStartTime = ClipEnd(Len(clips))
    /\ \A c \in 1..Len(clips) : \A d \in 1..(c - 1) :
          clips[d].stoppedAt = -1 =>
              /\ ClipEnd(d) <= clips[c].start
              /\ clips[d].start <= clips[c].start

\* three clips, none stopped: one queued behind a clip still to play, one
\* scheduled after the cursor had fallen behind the clock
C17_Witness ==
    /\ Len(clips) = 3
    /\ \A c \in 1..3 : clips[c].stoppedAt = -1
    /\ \E c \in 1..3 : clips[c].cursor > clips[c].scheduledAt
    /\ \E c \in 1..3 : clips[c].cursor > 0 /\ clips[c].cursor < clips[c].scheduledAt

\* C18: the transcription is never longer than TranscriptCap characters, and
\* when a fragment makes it overflow, what is kept after the ellipsis is the
\* last TranscriptCap characters of the transcription with the fragment.
C18_TranscriptBounded ==
    /\ Len(transcription) <= TranscriptCap
    /\ (/\ liveLast.op = "message"
        /\ Len(liveLast.prevTranscription \o liveLast.text) > TranscriptCap) =>
          SubSeq(transcription, Len(Ellipsis) + 1, Len(Ellipsis) + TranscriptCap)
              = LastChars(liveLast.prevTranscription \o liveLast.text, TranscriptCap)

\* C21: once the session is in error (the connection reported a failure, or
\* startSession failed while it acquired the devices), nothing is left
\* dangling: no scheduled source is still to be stopped, the microphone stream
\* is not live, no audio context is left open, and no block is uploaded.
C21_ErrorLeavesNothing ==
    status = "error" =>
        /\ \A c \in SourceSet(audioSources) : clips[c].stoppedAt # -1
        /\ liveStream # "live"
        /\ inputContext # "open" /\ outputContext # "open"
        /\ liveLast.op = "audioprocess" => socket # "open"

\* C22: when the overlay is closed and the close of the connection fails, the
\* releases of the other resources are carried out all the same: neither
\* audio context is left open.
C22_ReleasesIndependent ==
    liveLast.op = "cleanupThrew" => inputContext # "open" /\ outputContext # "open"

\* after stopRecording: no recorder records, no microphone stream is live, the
\* keep-alive playback does not play, and recording is reported off
CaptureReleased ==
    /\ \A r \in StartIds : recorders[r] # "recording"
    /\ \A r \in StartIds : streams[r] # "live"
    /\ silentAudio # "playing"
    /\ ~isRecording

\* C23: stop() leaves the capture released, also when start() never succeeded,
\* and a stop() that follows a stop() changes nothing.
C23_StopIdempotent ==
    [][/\ last'.op = "stop" => CaptureReleased'
       /\ (last.op = "stop" /\ last'.op = "stop") => UNCHANGED captureVars]_vars

\* C24: when start() fails after the microphone stream was acquired (the
\* recorder cannot be created or started), the stream acquired is released and
\* nothing of the failed start is retained: neither ref holds its stream or
\* recorder, and the start has not turned recording on.
C24_PartialStartRolledBack ==
    (last.op = "started" /\ last.val \in {"constructorThrows", "startThrows"}) =>
        /\ streams[last.arg] # "live"
        /\ streamRef # last.arg
        /\ mediaRecorderRef # last.arg
        /\ recorders[last.arg] # "recording"

\* C25: at most one recorder records and at most one microphone stream is
\* live, and each is the one that stopRecording reaches through its ref.
C25_OneCaptureSession ==
    /\ Cardinality({r \in StartIds : recorders[r] = "recording"}) <= 1
    /\ Cardinality({r \in StartIds : streams[r] = "live"}) <= 1
    /\ \A r \in StartIds : recorders[r] = "recording" => mediaRecorderRef = r
    /\ \A r \in StartIds : streams[r] = "live" => streamRef = r

\* a call of startRecording has not returned yet
StartInFlight == \E s \in StartIds : starts[s].pc \in {"checkPermission", "getUserMedia"}

\* C27: while monitoring is stopped (recording is off and no start() is in
\* flight), no recorder event changes the ring buffer.
C27_NoFragmentAfterStop ==
    (last.op = "dataavailable" /\ audioChunks # last.prevChunks) =>
        isRecording \/ StartInFlight

\* C26: a start() during which the user grants the microphone permission at
\* the prompt goes on to acquire the microphone; it does not return there.
C26_GrantedStartRecords ==
    (last.op = "checked" /\ last.ret = 1) => starts[last.arg].pc = "getUserMedia"

\* the save that ran last follows an earlier save with the same lookback, and
\* no handler between the two changed the buffer
C28_SecondSave ==
    /\ last.op = "save"
    /\ last.prevSave # NoSave
    /\ last.prevSave.minutes = last.arg

C28_IsSuffix(s, t) ==
    Len(s) <= Len(t) /\ s = SubSeq(t, Len(t) - Len(s) + 1, Len(t))

\* C28 as stated: a save, whether it stored an incident or returned null,
\* leaves the ring buffer as it was, fragments and order, and two saves with
\* the same lookback and no append or prune between them select the same
\* fragments.
C28_SameSelection ==
    /\ last.op = "save" => audioChunks = last.prevChunks
    /\ C28_SecondSave => SavedBlob = last.prevSave.blob

\* C28, amended: a save leaves the ring buffer as it was; of two saves with
\* the same lookback and no append or prune between them, the second selects
\* the fragments of the first that are still within the lookback at its own
\* time: the same fragments when it runs at the time of the first, a suffix
\* of them when it runs later.
C28_ExtractionReadOnly ==
    /\ last.op = "save" => audioChunks = last.prevChunks
    /\ C28_SecondSave =>
          /\ C28_IsSuffix(SavedBlob, last.prevSave.blob)
          /\ last.prevSave.at = now => SavedBlob = last.prevSave.blob
          /\ BlobSet(SavedBlob) =
                BlobSet(last.prevSave.blob) \cap DataOf(audioChunks, now - SaveMs(last.arg))

\* the second of two saves with the same lookback at the same time, which
\* selected some of the fragments in the buffer and not all of them
C28_Witness ==
    /\ C28_SecondSave /\ last.prevSave.at = now
    /\ last.ret # 0
    /\ SavedBlob = last.prevSave.blob
    /\ Len(SavedBlob) < Len(audioChunks)

\* the message is one of those the service sends besides the interruption:
\* an audio payload, a transcription text or turnComplete, and nothing more
C29_OneOf(carried) ==
    Cardinality({k \in {"audio", "text", "turnComplete"} :
                    CASE k = "audio" -> carried.audio > 0
                      [] k = "text" -> carried.text # <<>>
                      [] OTHER -> carried.turnComplete}) = 1

\* C29: a message with the interruption signal schedules no audio and appends
\* nothing but the interruption marker; a message of the service is handled
\* as one case only: an audio payload is scheduled and appends no text, a
\* transcription text is appended and schedules nothing, and no message both
\* schedules audio and appends text.
C29_ExclusiveCases ==
    [][/\ liveLast'.op = "interrupted" =>
             /\ Len(clips') = Len(clips)
             /\ transcription' = transcription \o InterruptedMarker
       /\ (liveLast'.op = "message" /\ C29_OneOf(liveLast')) =>
             /\ ~(Len(clips') > Len(clips) /\ transcription' # transcription)
             /\ liveLast'.audio > 0 =>
                   /\ Len(clips') = Len(clips) + 1
                   /\ transcription' = transcription
             /\ liveLast'.text # <<>> =>
                   /\ clips' = clips
                   /\ transcription' = AppendText(transcription, liveLast'.text)]_vars

\* an audio payload was scheduled and left alone the transcription, which
\* holds the text of an earlier message, after an interruption
C29_Witness ==
    /\ liveLast.op = "message" /\ C29_OneOf(liveLast) /\ liveLast.audio > 0
    /\ clips # <<>> /\ clips[Len(clips)].scheduledAt = currentTime
    /\ interruptedAt # -1
    /\ transcription = liveLast.prevTranscription
    /\ \E i \in 1..Len(transcription) : transcription[i] = Letters[1]

\* C30: a message that carries turnComplete and nothing else appends the
\* separator to the transcription and leaves the status, the cursor, the
\* scheduled sources and their clips as they were.
C30_TurnCompleteFrame ==
    [][(/\ liveLast'.op = "message" /\ liveLast'.turnComplete
        /\ liveLast'.audio = 0 /\ liveLast'.text = <<>>) =>
          /\ transcription' = transcription \o TurnSeparator
          /\ status' = status
          /\ nextStartTime' = nextStartTime
          /\ audioSources' = audioSources
          /\ clips' = clips]_vars

\* a turn completion arrived while a clip was scheduled, the cursor stood at
\* its end and the transcription had text
C30_Witness ==
    /\ liveLast.op = "message" /\ liveLast.turnComplete
    /\ liveLast.audio = 0 /\ liveLast.text = <<>>
    /\ liveLast.prevTranscription # <<>>
    /\ transcription = liveLast.prevTranscription \o TurnSeparator
    /\ audioSources # <<>> /\ nextStartTime > 0
    /\ status = "connected"

\* seconds from the capture of the first fragment of a blob to that of its last
ElapsedSeconds(blob) ==
    (captured[blob[Len(blob)]].timestamp - captured[blob[1]].timestamp) \div 1000

\* C31: the durationSeconds of the incident a save stores is the number of
\* buffered fragments inside the lookback window of that save.
C31_DurationIsCount ==
    (last.op = "save" /\ last.ret # 0) =>
        incidents[1].durationSeconds =
            Cardinality({j \in 1..Len(last.prevChunks) :
                            last.prevChunks[j].timestamp >= now - SaveMs(last.arg)})

\* saved incidents whose duration is larger and smaller than the time their
\* fragments span: two fragments of the same instant, and fragments a quarter
\* of an hour apart
C31_Witness ==
    /\ last.op = "save" /\ last.ret # 0
    /\ Len(incidents) = 2
    /\ incidents[1].durationSeconds > 1
    /\ ElapsedSeconds(incidents[1].blob) > incidents[1].durationSeconds
    /\ incidents[2].durationSeconds = 2 /\ ElapsedSeconds(incidents[2].blob) = 0

\* the ids of the incidents with an analysis request in flight
InFlightIds == {req.id : req \in requests}

\* C32: the analyzing set holds exactly the ids of the incidents with a
\* request in flight, no incident has two requests in flight, and a request
\* that has completed, with a result or with a failure, has left the set
\* without the id of its incident.
C32_NoDoubleAnalysis ==
    /\ analyzingIds = InFlightIds
    /\ \A r1, r2 \in requests : r1.id = r2.id => r1 = r2
    /\ last.op = "analyzed" => last.arg \notin analyzingIds

\* the callbacks of the streaming connection, by the mark they leave
ServiceEvents == {"open", "message", "interrupted", "ignored", "close", "error"}

\* C33: once the overlay has been closed, a callback of the connection (open,
\* message, close, error) changes neither the status, the transcription, the
\* cursor nor the scheduled sources, and schedules no clip.
C33_LateEventsIgnored ==
    [][(LiveClosed /\ liveLast'.op \in ServiceEvents) =>
          /\ status' = status
          /\ transcription' = transcription
          /\ nextStartTime' = nextStartTime
          /\ audioSources' = audioSources
          /\ clips' = clips]_vars

\* the overlay was closed while the connection was being made; the
\* connection then opened, and a message with audio and text arrived
C33_Witness ==
    /\ LiveClosed
    /\ liveLast.op = "ignored" /\ liveLast.audio > 0 /\ liveLast.text # <<>>
    /\ socket = "open" /\ status = "connecting"
    /\ clips = <<>> /\ transcription = <<>>

====
